---- MODULE Spec2Model ----
(***************************************************************************)
(* Model of the UniFi Network API integration: the transport client        *)
(* (api.py: _request, _paginate, get_wans), the polling coordinator        *)
(* (coordinator.py: _async_update_data, _fetch_device_data), the entry     *)
(* setup (__init__.py: async_setup_entry), the sensor platform             *)
(* (sensor.py: async_setup_entry) and the config flow (config_flow.py).    *)
(***************************************************************************)
EXTENDS Integers, Sequences, FiniteSets, TLC

(***************************************************************************)
(* Bounds of the model.                                                    *)
(***************************************************************************)
MaxCycles == 2
MaxPages == 4
MaxClients == 3
MaxWans == 3
MaxSubmits == 2

VARIABLES
    entry_state,     \* __init__.py: "not_loaded" | "first_refresh" | "refreshed" | "loaded"
    pc,              \* position of _async_update_data: "Idle" | "AwaitTop" | "AwaitDevices"
    cycle,           \* number of refresh cycles started so far
    data,            \* coordinator.data: None or the last returned snapshot
    last_exception,  \* what the last finished cycle raised (None on success)
    top,             \* results of the three awaitables of the first gather
    sub,             \* per device of devices_list: results of details / statistics
    inflight,        \* HTTP fetches started and not yet completed
    controller,      \* what the controller serves: "conforming" | "any" records,
                     \* or "bare": conforming records of a site without clients
    tracked_devices, \* sensor.py: tracked_devices of async_setup_entry
    added,           \* sensor.py: the entities of each async_add_entities call
    notified,        \* history: the device ids of coordinator.data at each run of
                     \* _async_add_new_devices
    server,          \* _paginate: the controller a call of _paginate talks to
    p_pc,            \* _paginate: "loop" | "await" | "returned" | "raised"
    offset,          \* _paginate: local offset
    results,         \* _paginate: local results
    requests,        \* _paginate: the page requests issued so far
    responses,       \* _paginate: the responses received so far
    p_out,           \* _paginate: what the call returned or raised
    r_resp,          \* _request: what the session answers to the call
    r_pc,            \* _request: "call" | "done"
    r_out,           \* _request: what the call returned or raised
    c_clients,       \* classification: the clients list of a cycle
    c_pc,            \* classification: "call" | "done"
    c_out,           \* classification: the snapshot built from c_clients
    f_pc,            \* config flow: "user_form" | "await_info" | "await_sites" | "site_form" | "done"
    f_submits,       \* config flow: number of submitted user forms
    f_input,         \* config flow: self._host, self._api_key, self._verify_ssl
    f_calls,         \* config flow: the probe calls of the last submission
    f_info,          \* config flow: what get_info returned or raised
    f_got,           \* config flow: what get_sites returned or raised
    f_sites,         \* config flow: self._sites
    f_errors,        \* config flow: errors of the form that is shown
    f_result         \* config flow: the result that ended the flow

cycleVars == <<entry_state, pc, cycle, data, last_exception, top, sub, inflight, controller,
               tracked_devices, added, notified>>
pageVars == <<server, p_pc, offset, results, requests, responses, p_out>>
requestVars == <<r_resp, r_pc, r_out>>
classifyVars == <<c_clients, c_pc, c_out>>
flowVars == <<f_pc, f_submits, f_input, f_calls, f_info, f_got, f_sites, f_errors, f_result>>
vars == <<cycleVars, pageVars, requestVars, classifyVars, flowVars>>

(***************************************************************************)
(* Values.                                                                 *)
(***************************************************************************)
None == [none |-> TRUE]
EmptyMap == [k \in {} |-> 0]

UnifiApiError == "UnifiApiError"
UnifiAuthenticationError == "UnifiAuthenticationError"
UnifiConnectionError == "UnifiConnectionError"
ErrorKinds == {UnifiApiError, UnifiAuthenticationError, UnifiConnectionError}

\* the exception classes without their common base class
IsInstance_flat(err, cls) == err = cls

\* isinstance(err, cls) over the exception classes of api.py
IsInstance(err, cls) ==
    \/ err = cls
    \/ cls = UnifiApiError /\ err \in {UnifiAuthenticationError, UnifiConnectionError}

Pending == [st |-> "pending"]
Ok(v) == [st |-> "ok", val |-> v]
Exc(e) == [st |-> "exc", exc |-> e]

TopTasks == {"devices", "clients", "wans"}
SubTasks == {"details", "statistics"}
DeviceIds == {"d1", "d2"}

\* client type strings, one character per element
T_WIRED == <<"W", "I", "R", "E", "D">>
T_wireless == <<"w", "i", "r", "e", "l", "e", "s", "s">>
T_Vpn == <<"V", "p", "n">>
T_GUEST == <<"G", "U", "E", "S", "T">>

(***************************************************************************)
(* The controller's data as served during cycle rev.                       *)
(***************************************************************************)
DeviceRecord(id, rev) == [id |-> id, rev |-> rev]
DetailsRecord(id, rev) == [id |-> id, rev |-> rev, firmware |-> "fw"]
StatisticsRecord(id, rev) == [id |-> id, rev |-> rev, uptimeSec |-> 1]
ClientRecord(n, rev, type) == [mac |-> n, rev |-> rev, type |-> type]
ClientRecordNoType(n, rev) == [mac |-> n, rev |-> rev]
WanRecord(rev) == [name |-> "wan1", rev |-> rev]

\* records a conforming controller does not serve: a device without "id", and
\* a client whose "type" is present and null (the keys whose value is null are
\* listed under nulls)
DeviceRecordNoId(rev) == [name |-> "nameless", rev |-> rev]
ClientRecordNullType(n, rev) == [mac |-> n, rev |-> rev, nulls |-> {"type"}]

DeviceListings(rev) ==
    { <<>>,
      <<DeviceRecord("d1", rev)>>,
      <<DeviceRecord("d2", rev), DeviceRecord("d1", rev)>> }

ClientListings(rev) ==
    IF controller = "bare" THEN { <<>> }
    ELSE { <<>>,
           <<ClientRecord(1, rev, T_WIRED), ClientRecord(2, rev, T_wireless),
             ClientRecord(3, rev, T_Vpn), ClientRecord(4, rev, T_GUEST),
             ClientRecordNoType(5, rev)>> }

WanListings(rev) == { <<WanRecord(rev)>> }

\* listings with a record a conforming controller does not serve
OddListings(t, rev) ==
    CASE t = "devices" -> { <<DeviceRecord("d1", rev), DeviceRecordNoId(rev)>> }
      [] t = "clients" -> { <<ClientRecord(1, rev, T_WIRED), ClientRecordNullType(2, rev)>> }
      [] OTHER -> {}

\* what a top-level facade call can end with: a list, or one of the errors.
\* With any controller also a listing with an odd record, or the
\* AttributeError of resp.get(...) on a body that is not an object
\* (api.py lines 84 and 128).
TopOutcomes(t, rev) ==
    { Exc(e) : e \in ErrorKinds } \cup
    { Ok(v) : v \in CASE t = "devices" -> DeviceListings(rev)
                      [] t = "clients" -> ClientListings(rev)
                      [] OTHER -> WanListings(rev) } \cup
    (IF controller = "any"
     THEN {Exc("AttributeError")} \cup { Ok(v) : v \in OddListings(t, rev) }
     ELSE {})

SubOutcomes(s, id, rev) ==
    { Exc(e) : e \in ErrorKinds } \cup
    { Ok(IF s = "details" THEN DetailsRecord(id, rev) ELSE StatisticsRecord(id, rev)) }

(***************************************************************************)
(* Client classification, coordinator.py lines 78-89.                      *)
(***************************************************************************)
LowerChars == <<"a", "b", "c", "d", "e", "f", "g", "h", "i", "j", "k", "l", "m",
                "n", "o", "p", "q", "r", "s", "t", "u", "v", "w", "x", "y", "z">>
UpperChars == <<"A", "B", "C", "D", "E", "F", "G", "H", "I", "J", "K", "L", "M",
                "N", "O", "P", "Q", "R", "S", "T", "U", "V", "W", "X", "Y", "Z">>

\* str.upper() on one character
UpperChar(c) ==
    IF \E k \in 1..Len(LowerChars) : LowerChars[k] = c
    THEN UpperChars[CHOOSE k \in 1..Len(LowerChars) : LowerChars[k] = c]
    ELSE c

\* a comparison that forgets to fold the case
upper_asis(s) == s

upper(s) == [i \in 1..Len(s) |-> UpperChar(s[i])]

\* client.get("type", "")
GetType(client) == IF "type" \in DOMAIN client THEN client.type ELSE <<>>

RECURSIVE CountClients(_, _, _)
CountClients(clients_list, i, counts) ==
    IF i > Len(clients_list) THEN counts
    ELSE LET client_type == upper(GetType(clients_list[i]))
         IN CountClients(clients_list, i + 1,
              IF client_type = <<"W", "I", "R", "E", "D">>
              THEN [counts EXCEPT !.wired = @ + 1]
              ELSE IF client_type = <<"W", "I", "R", "E", "L", "E", "S", "S">>
              THEN [counts EXCEPT !.wireless = @ + 1]
              ELSE IF client_type = <<"V", "P", "N">>
              THEN [counts EXCEPT !.vpn = @ + 1]
              ELSE counts)

(***************************************************************************)
(* Assembly of the snapshot, coordinator.py lines 53-99.                   *)
(***************************************************************************)
\* a loop that binds devices to a fresh one-entry dict on every iteration
DictSet_replace(d, k, v) == [x \in {k} |-> v]

\* devices[k] = v
DictSet(d, k, v) == [x \in (DOMAIN d) \cup {k} |-> IF x = k THEN v ELSE d[x]]

\* a gather that hands the failures on as ordinary results
IsException_never(result) == FALSE

IsException(result) == "exc" \in DOMAIN result

Placeholder(device) == [info |-> device, details |-> EmptyMap, statistics |-> EmptyMap]

\* _fetch_device_data: the inner gather raises the first failure of the two
\* fetches, otherwise the entry is returned
_fetch_device_data(device, s) ==
    IF s.details.st = "exc" THEN [exc |-> s.details.exc]
    ELSE IF s.statistics.st = "exc" THEN [exc |-> s.statistics.exc]
    ELSE [info |-> device, details |-> s.details.val, statistics |-> s.statistics.val]

\* a gather that is done only when both of its awaitables returned
FetchDone_bothok(s) == s.details.st = "ok" /\ s.statistics.st = "ok"

\* the inner gather of _fetch_device_data is done: one of the two fetches
\* raised, or both returned
FetchDone(s) ==
    \/ s.details.st = "exc"
    \/ s.statistics.st = "exc"
    \/ s.details.st = "ok" /\ s.statistics.st = "ok"

RECURSIVE BuildDevices(_, _, _, _)
BuildDevices(devices, devices_list, stats_results, i) ==
    IF i > Len(devices_list) \/ i > Len(stats_results) THEN devices
    ELSE LET device == devices_list[i]
             result == stats_results[i]
             device_id == device.id
         IN BuildDevices(
              DictSet(devices, device_id,
                      IF IsException(result) THEN Placeholder(device) ELSE result),
              devices_list, stats_results, i + 1)

\* a snapshot that is updated in place: the entries of the previous snapshot
\* are kept and the new ones written over them
Snapshot_inplace(devices, clients_list, wans_list) ==
    LET counts == CountClients(clients_list, 1, [wired |-> 0, wireless |-> 0, vpn |-> 0])
        old == IF data = None THEN EmptyMap ELSE data.devices
    IN [devices |-> [x \in (DOMAIN old) \cup (DOMAIN devices) |->
                       IF x \in DOMAIN devices THEN devices[x] ELSE old[x]],
        clients |-> clients_list,
        wans |-> wans_list,
        client_count |-> Len(clients_list),
        client_count_wired |-> counts.wired,
        client_count_wireless |-> counts.wireless,
        client_count_vpn |-> counts.vpn]

Snapshot(devices, clients_list, wans_list) ==
    LET counts == CountClients(clients_list, 1, [wired |-> 0, wireless |-> 0, vpn |-> 0])
    IN [devices |-> devices,
        clients |-> clients_list,
        wans |-> wans_list,
        client_count |-> Len(clients_list),
        client_count_wired |-> counts.wired,
        client_count_wireless |-> counts.wireless,
        client_count_vpn |-> counts.vpn]

HasId(device) == "id" \in DOMAIN device

\* client.get("type", "") is None
TypeIsNull(client) == "nulls" \in DOMAIN client /\ "type" \in client.nulls

\* lines 53-99 of _async_update_data: the snapshot that is returned, or the
\* exception of the first statement that raises: device["id"] of line 63 on a
\* record without id, None.upper() of line 83 on a null type
AssembleSnapshot(devices_list, stats_results, clients_list, wans_list) ==
    IF \E i \in DOMAIN devices_list : i \in DOMAIN stats_results /\ ~HasId(devices_list[i])
    THEN [exc |-> "KeyError"]
    ELSE IF \E i \in DOMAIN clients_list : TypeIsNull(clients_list[i])
    THEN [exc |-> "AttributeError"]
    ELSE Snapshot(BuildDevices(EmptyMap, devices_list, stats_results, 1),
                  clients_list, wans_list)

\* the except clauses of _async_update_data
ExceptHandler(err) ==
    IF IsInstance(err, UnifiAuthenticationError)
    THEN [kind |-> "UpdateFailed", msg |-> "Authentication failed", cause |-> err]
    ELSE IF IsInstance(err, UnifiApiError)
    THEN [kind |-> "UpdateFailed", msg |-> "Error communicating with UniFi API", cause |-> err]
    ELSE [kind |-> err, msg |-> "", cause |-> err]

(***************************************************************************)
(* The refresh cycle.                                                      *)
(***************************************************************************)
IdleTop == [t \in TopTasks |-> [st |-> "idle"]]

\* __init__.py line 31: a new coordinator, nothing refreshed or set up yet
NewCoordinator ==
    /\ entry_state = "not_loaded"
    /\ pc = "Idle"
    /\ cycle = 0
    /\ data = None
    /\ last_exception = None
    /\ top = IdleTop
    /\ sub = <<>>
    /\ inflight = {}
    /\ tracked_devices = {}
    /\ added = <<>>
    /\ notified = <<>>

CycleInit == controller = "conforming" /\ NewCoordinator

PageOff ==
    /\ server = None
    /\ p_pc = "off"
    /\ offset = 0
    /\ results = <<>>
    /\ requests = <<>>
    /\ responses = <<>>
    /\ p_out = None

RequestOff ==
    /\ r_resp = None
    /\ r_pc = "off"
    /\ r_out = None

ClassifyOff ==
    /\ c_clients = <<>>
    /\ c_pc = "off"
    /\ c_out = None

\* config_flow.py lines 40-42: the fields of a new flow
NoInput == [host |-> "", api_key |-> "", verify_ssl |-> FALSE]

FlowOff ==
    /\ f_pc = "off"
    /\ f_submits = 0
    /\ f_input = NoInput
    /\ f_calls = <<>>
    /\ f_info = None
    /\ f_got = None
    /\ f_sites = <<>>
    /\ f_errors = EmptyMap
    /\ f_result = None

Init == CycleInit /\ PageOff /\ RequestOff /\ ClassifyOff /\ FlowOff

\* line 46: the three top-level fetches are started together
StartCycle ==
    /\ cycle' = cycle + 1
    /\ pc' = "AwaitTop"
    /\ top' = [t \in TopTasks |-> Pending]
    /\ sub' = <<>>
    /\ inflight' = inflight \cup { <<cycle + 1, t, "">> : t \in TopTasks }
    /\ UNCHANGED <<data, last_exception, tracked_devices, added, notified>>

\* __init__.py line 32: coordinator.async_config_entry_first_refresh()
FirstRefresh ==
    /\ entry_state = "not_loaded"
    /\ pc = "Idle"
    /\ cycle < MaxCycles
    /\ entry_state' = "first_refresh"
    /\ StartCycle
    /\ UNCHANGED <<controller, pageVars, requestVars, classifyVars, flowVars>>

\* coordinator.py line 38: update_interval = UPDATE_INTERVAL. The timer belongs
\* to the base class DataUpdateCoordinator, which arms it when a refresh has
\* finished; a refresh is therefore taken to start from Idle only.
IntervalRefresh ==
    /\ entry_state = "loaded"
    /\ pc = "Idle"
    /\ cycle < MaxCycles
    /\ UNCHANGED entry_state
    /\ StartCycle
    /\ UNCHANGED <<controller, pageVars, requestVars, classifyVars, flowVars>>

(***************************************************************************)
(* Sensor platform, sensor.py lines 210-250.                               *)
(***************************************************************************)
DeviceSensorKeys ==
    {"state", "cpu_utilization", "memory_utilization", "uptime", "load_average_1min",
     "load_average_5min", "load_average_15min", "firmware_version", "firmware_updatable",
     "uplink_tx_rate", "uplink_rx_rate", "last_heartbeat"}
SiteSensorKeys ==
    {"total_clients", "wired_clients", "wireless_clients", "vpn_clients", "device_count"}

\* a listener that also forgets the devices that left the snapshot
_async_add_new_devices_forgetful(current) ==
    LET current_devices == DOMAIN current.devices
        new_device_ids == current_devices \ tracked_devices
        new_entities == { <<device_id, key>> :
                            device_id \in new_device_ids, key \in DeviceSensorKeys }
    IN /\ tracked_devices' = current_devices
       /\ added' = IF new_entities # {} THEN Append(added, new_entities) ELSE added
       /\ notified' = Append(notified, current_devices)

\* lines 223-235: the sensors of the devices of current that are not tracked
\* yet are added, and the devices are tracked from then on
_async_add_new_devices(current) ==
    LET current_devices == DOMAIN current.devices
        new_device_ids == current_devices \ tracked_devices
        new_entities == { <<device_id, key>> :
                            device_id \in new_device_ids, key \in DeviceSensorKeys }
    IN /\ tracked_devices' = tracked_devices \cup new_device_ids
       /\ added' = IF new_entities # {} THEN Append(added, new_entities) ELSE added
       /\ notified' = Append(notified, current_devices)

\* a listener that is handed the snapshot of before the refresh
CoordinatorData_superseded(old, new) == old

\* coordinator.data as a listener reads it (line 224) when a refresh has
\* returned new: the base class stores the returned snapshot before it calls
\* the listeners
CoordinatorData(old, new) == new

\* the listeners of the coordinator are called when a refresh is over; the
\* only listener that changes state is _async_add_new_devices, registered in
\* line 248
UpdateListeners(current) ==
    IF entry_state = "loaded"
    THEN _async_add_new_devices(current)
    ELSE UNCHANGED <<tracked_devices, added, notified>>

\* __init__.py line 32 raised: the setup of the entry is given up
FirstRefreshFailed_goeson == "refreshed"

FirstRefreshFailed == "not_loaded"

\* __init__.py lines 34-35 and sensor.py lines 216-250: after the first
\* refresh the coordinator is registered and the sensor platform is set up:
\* the site sensors are added, _async_add_new_devices is called once and then
\* registered as a listener
SensorSetup ==
    /\ entry_state = "refreshed"
    /\ pc = "Idle"
    /\ LET site_entities == { <<"site", key>> : key \in SiteSensorKeys }
           current_devices == DOMAIN data.devices
           new_entities == { <<device_id, key>> :
                               device_id \in current_devices, key \in DeviceSensorKeys }
       IN /\ tracked_devices' = current_devices
          /\ added' = IF new_entities # {} THEN <<site_entities, new_entities>>
                       ELSE <<site_entities>>
          /\ notified' = <<current_devices>>
    /\ entry_state' = "loaded"
    /\ UNCHANGED <<pc, cycle, data, last_exception, top, sub, inflight>>
    /\ UNCHANGED <<controller, pageVars, requestVars, classifyVars, flowVars>>

\* the cycle ends: the returned snapshot is published, or the raised
\* exception is kept and the snapshot is left alone
Publish(snapshot) ==
    /\ data' = snapshot
    /\ last_exception' = None
    /\ pc' = "Idle"
    /\ entry_state' = IF entry_state = "first_refresh" THEN "refreshed" ELSE entry_state
    /\ top' = IdleTop
    /\ sub' = <<>>
    /\ UpdateListeners(CoordinatorData(data, snapshot))

Fail(exception) ==
    /\ last_exception' = exception
    /\ pc' = "Idle"
    /\ entry_state' = IF entry_state = "first_refresh" THEN FirstRefreshFailed
                       ELSE entry_state
    /\ top' = IdleTop
    /\ sub' = <<>>
    /\ UNCHANGED data
    /\ UpdateListeners(data)

\* _async_update_data is over with what lines 53-99 returned or raised
Finish(result) ==
    IF "exc" \in DOMAIN result
    THEN Fail(ExceptHandler(result.exc))
    ELSE Publish(result)

\* one of the awaited top-level fetches completes
TopFetchDone(t) ==
    /\ pc = "AwaitTop"
    /\ top[t] = Pending
    /\ \A u \in TopTasks : top[u].st # "exc"
    /\ \E outcome \in TopOutcomes(t, cycle) :
         top' = [top EXCEPT ![t] = outcome]
    /\ inflight' = inflight \ { <<cycle, t, "">> }
    /\ UNCHANGED <<entry_state, pc, cycle, data, last_exception, sub>>
    /\ UNCHANGED <<tracked_devices, added, notified>>
    /\ UNCHANGED <<controller, pageVars, requestVars, classifyVars, flowVars>>

\* _async_update_data resumes from the first gather with the exception of
\* the awaitable that failed first (lines 46-50, 101-104)
ResumeTopRaised ==
    /\ pc = "AwaitTop"
    /\ \E t \in TopTasks : top[t].st = "exc"
    /\ LET t == CHOOSE t \in TopTasks : top[t].st = "exc"
       IN Fail(ExceptHandler(top[t].exc))
    /\ UNCHANGED <<cycle, inflight>>
    /\ UNCHANGED <<controller, pageVars, requestVars, classifyVars, flowVars>>

\* a cycle that goes on to the devices as soon as their listing is there
TopGathered_devicesfirst ==
    \/ \A t \in TopTasks : top[t].st = "ok"
    \/ /\ top["devices"].st = "ok"
       /\ top["devices"].val # <<>>
       /\ \A t \in TopTasks : top[t].st # "exc"

\* lines 46-50: the first gather returns when its three awaitables returned
TopGathered == \A t \in TopTasks : top[t].st = "ok"

\* _fetch_device_data on a record without id: device["id"] of line 110 raises
\* before a fetch is started
NoFetch == [details |-> Exc("KeyError"), statistics |-> Exc("KeyError")]

\* _async_update_data resumes from the first gather with the three lists
\* (lines 46-61; lines 78-99 when devices_list is empty)
ResumeTop ==
    /\ pc = "AwaitTop"
    /\ TopGathered
    /\ LET devices_list == top["devices"].val
       IN IF devices_list # <<>>
          THEN /\ pc' = "AwaitDevices"
               /\ sub' = [i \in 1..Len(devices_list) |->
                            IF HasId(devices_list[i])
                            THEN [details |-> Pending, statistics |-> Pending]
                            ELSE NoFetch]
               /\ inflight' = inflight \cup
                    { <<cycle, s, devices_list[i].id>> :
                        s \in SubTasks,
                        i \in { j \in 1..Len(devices_list) : HasId(devices_list[j]) } }
               /\ UNCHANGED <<entry_state, data, last_exception, top>>
               /\ UNCHANGED <<tracked_devices, added, notified>>
          ELSE /\ Finish(AssembleSnapshot(devices_list, <<>>,
                                          top["clients"].val, top["wans"].val))
               /\ UNCHANGED inflight
    /\ UNCHANGED cycle
    /\ UNCHANGED <<controller, pageVars, requestVars, classifyVars, flowVars>>

\* one of the two fetches of an unfinished _fetch_device_data completes
DeviceFetchDone(i, s) ==
    /\ pc = "AwaitDevices"
    /\ i \in DOMAIN sub
    /\ ~FetchDone(sub[i])
    /\ sub[i][s] = Pending
    /\ LET id == top["devices"].val[i].id
       IN /\ \E outcome \in SubOutcomes(s, id, cycle) :
               sub' = [sub EXCEPT ![i][s] = outcome]
          /\ inflight' = inflight \ { <<cycle, s, id>> }
    /\ UNCHANGED <<entry_state, pc, cycle, data, last_exception, top>>
    /\ UNCHANGED <<tracked_devices, added, notified>>
    /\ UNCHANGED <<controller, pageVars, requestVars, classifyVars, flowVars>>

\* _async_update_data resumes from the second gather (lines 62-99)
ResumeDevices ==
    /\ pc = "AwaitDevices"
    /\ \A i \in DOMAIN sub : FetchDone(sub[i])
    /\ LET devices_list == top["devices"].val
           stats_results == [i \in DOMAIN sub |-> _fetch_device_data(devices_list[i], sub[i])]
       IN Finish(AssembleSnapshot(devices_list, stats_results,
                                  top["clients"].val, top["wans"].val))
    /\ UNCHANGED <<cycle, inflight>>
    /\ UNCHANGED <<controller, pageVars, requestVars, classifyVars, flowVars>>

\* a fetch nobody awaits any more completes; its result is dropped
Awaited(r) ==
    /\ r[1] = cycle
    /\ \/ /\ pc = "AwaitTop"
          /\ r[2] \in TopTasks
          /\ \A u \in TopTasks : top[u].st # "exc"
       \/ /\ pc = "AwaitDevices"
          /\ r[2] \in SubTasks
          /\ \E i \in DOMAIN sub :
               ~FetchDone(sub[i]) /\ top["devices"].val[i].id = r[3]

OrphanFetchDone(r) ==
    /\ r \in inflight
    /\ ~Awaited(r)
    /\ inflight' = inflight \ {r}
    /\ UNCHANGED <<entry_state, pc, cycle, data, last_exception, top, sub>>
    /\ UNCHANGED <<tracked_devices, added, notified>>
    /\ UNCHANGED <<controller, pageVars, requestVars, classifyVars, flowVars>>

Next ==
    \/ FirstRefresh
    \/ IntervalRefresh
    \/ \E t \in TopTasks : TopFetchDone(t)
    \/ ResumeTopRaised
    \/ ResumeTop
    \/ \E i \in 1..Cardinality(DeviceIds), s \in SubTasks : DeviceFetchDone(i, s)
    \/ ResumeDevices
    \/ \E r \in inflight : OrphanFetchDone(r)
    \/ SensorSetup

Spec == Init /\ [][Next]_vars

\* The same cycle against a controller that may serve any record.
InitAnyData ==
    /\ controller = "any"
    /\ NewCoordinator
    /\ PageOff /\ RequestOff /\ ClassifyOff /\ FlowOff

SpecAnyData == InitAnyData /\ [][Next]_vars

\* The cycle under the scheduling of the event loop: a request that was sent
\* ends, with a response or with an error of the session, and a coroutine
\* whose awaited gather is done is resumed. The site is one without clients.
InitFair ==
    /\ controller = "bare"
    /\ NewCoordinator
    /\ PageOff /\ RequestOff /\ ClassifyOff /\ FlowOff

SpecFair ==
    /\ InitFair /\ [][Next]_vars
    /\ WF_vars(\E t \in TopTasks : TopFetchDone(t))
    /\ WF_vars(ResumeTopRaised)
    /\ WF_vars(ResumeTop)
    /\ WF_vars(\E i \in 1..Cardinality(DeviceIds), s \in SubTasks : DeviceFetchDone(i, s))
    /\ WF_vars(ResumeDevices)

(***************************************************************************)
(* The sensor platform over several refreshes. What the platform sees of a *)
(* refresh is its end: the snapshot that _async_update_data returned, or   *)
(* the exception it raised. A refresh is one step here.                    *)
(***************************************************************************)
MaxNotifications == 4

\* coordinator.py lines 46-99: the snapshots a cycle can return for a site
\* without clients: a device listing, and for each device either its two
\* fetches returned or one of them failed
Snapshots(rev) ==
    { AssembleSnapshot(
        devices_list,
        [i \in 1..Len(devices_list) |->
           _fetch_device_data(
             devices_list[i],
             IF i \in failed
             THEN [details |-> Exc(UnifiApiError), statistics |-> Pending]
             ELSE [details |-> Ok(DetailsRecord(devices_list[i].id, rev)),
                   statistics |-> Ok(StatisticsRecord(devices_list[i].id, rev))])],
        <<>>,
        wans_list) :
        <<devices_list, failed, wans_list>> \in
          { t \in DeviceListings(rev) \X (SUBSET (1..Cardinality(DeviceIds))) \X WanListings(rev) :
              t[2] \subseteq 1..Len(t[1]) } }

\* coordinator.py lines 43-99: a refresh after the first one returns a snapshot
RefreshReturns ==
    /\ entry_state = "loaded"
    /\ pc = "Idle"
    /\ cycle < MaxNotifications
    /\ cycle' = cycle + 1
    /\ \E snapshot \in Snapshots(cycle + 1) : Publish(snapshot)
    /\ UNCHANGED inflight
    /\ UNCHANGED <<controller, pageVars, requestVars, classifyVars, flowVars>>

\* coordinator.py lines 43-104: a refresh after the first one raises
RefreshRaises ==
    /\ entry_state = "loaded"
    /\ pc = "Idle"
    /\ cycle < MaxNotifications
    /\ cycle' = cycle + 1
    /\ \E err \in ErrorKinds : Fail(ExceptHandler(err))
    /\ UNCHANGED inflight
    /\ UNCHANGED <<controller, pageVars, requestVars, classifyVars, flowVars>>

\* __init__.py lines 32-35: the first refresh has returned a snapshot and the
\* platforms are about to be set up
InitSensors ==
    /\ controller = "bare"
    /\ entry_state = "refreshed"
    /\ pc = "Idle"
    /\ cycle = 1
    /\ data \in Snapshots(1)
    /\ last_exception = None
    /\ top = IdleTop
    /\ sub = <<>>
    /\ inflight = {}
    /\ tracked_devices = {}
    /\ added = <<>>
    /\ notified = <<>>
    /\ PageOff /\ RequestOff /\ ClassifyOff /\ FlowOff

NextSensors ==
    \/ SensorSetup
    \/ RefreshReturns
    \/ RefreshRaises

SpecSensors == InitSensors /\ [][NextSensors]_vars

(***************************************************************************)
(* Properties of the refresh cycle.                                        *)
(***************************************************************************)
SnapshotKeys == {"devices", "clients", "wans", "client_count", "client_count_wired",
                 "client_count_wireless", "client_count_vpn"}

\* C1: partial failure isolation. When the cycle resumes from the per-device
\* gather, it publishes a snapshot and raises nothing; a device whose fetch
\* failed (with whatever error) has the placeholder entry {info, {}, {}}, a
\* device whose two fetches succeeded has its fetched details and statistics.
C1_PartialFailureIsolation ==
    [][ (pc = "AwaitDevices" /\ pc' = "Idle") =>
          /\ last_exception' = None
          /\ data' # None
          /\ \A i \in DOMAIN sub :
                LET device == top["devices"].val[i]
                IN /\ device.id \in DOMAIN data'.devices
                   /\ (sub[i].details.st = "exc" \/ sub[i].statistics.st = "exc") =>
                        data'.devices[device.id] =
                          [info |-> device, details |-> EmptyMap, statistics |-> EmptyMap]
                   /\ (sub[i].details.st = "ok" /\ sub[i].statistics.st = "ok") =>
                        data'.devices[device.id] =
                          [info |-> device, details |-> sub[i].details.val,
                           statistics |-> sub[i].statistics.val]
      ]_vars

\* a published snapshot holds the placeholder of one device next to the full
\* entry of another
C1_Witness ==
    /\ pc = "Idle"
    /\ last_exception = None
    /\ data # None
    /\ \E x, y \in DOMAIN data.devices :
         /\ data.devices[x] = Placeholder(data.devices[x].info)
         /\ data.devices[y].details # EmptyMap
         /\ data.devices[y].statistics # EmptyMap

\* C2: top-level failure propagation. When the first gather raises an
\* authentication error, the cycle reports the distinct kind
\* AuthenticationFailed and the snapshot is unchanged.
C2_AuthFailureKind ==
    [][ ( /\ pc = "AwaitTop" /\ pc' = "Idle"
          /\ \E t \in TopTasks : top[t] = Exc(UnifiAuthenticationError) ) =>
          /\ last_exception'.kind = "AuthenticationFailed"
          /\ data' = data
      ]_vars

\* all records of a snapshot were served in the same cycle
Revs(snapshot) ==
    { snapshot.clients[i].rev : i \in DOMAIN snapshot.clients } \cup
    { snapshot.wans[i].rev : i \in DOMAIN snapshot.wans } \cup
    { snapshot.devices[d].info.rev : d \in DOMAIN snapshot.devices } \cup
    { snapshot.devices[d].details.rev :
        d \in { e \in DOMAIN snapshot.devices : snapshot.devices[e].details # EmptyMap } } \cup
    { snapshot.devices[d].statistics.rev :
        d \in { e \in DOMAIN snapshot.devices : snapshot.devices[e].statistics # EmptyMap } }

Complete(snapshot) ==
    /\ DOMAIN snapshot = SnapshotKeys
    /\ Cardinality(Revs(snapshot)) = 1
    /\ snapshot.client_count = Len(snapshot.clients)

\* C4: snapshot atomicity. coordinator.data is None or a complete snapshot
\* whose seven fields come from one cycle, and it changes only in the step
\* that ends a cycle successfully.
C4_SnapshotAtomicity ==
    /\ [](data = None \/ Complete(data))
    /\ [][ data' # data => (pc # "Idle" /\ pc' = "Idle" /\ last_exception' = None) ]_vars

\* a reader between two per-device fetches of a later cycle sees the
\* snapshot of the earlier cycle
C4_Witness ==
    /\ pc = "AwaitDevices"
    /\ data # None
    /\ Revs(data) = {cycle - 1}
    /\ \E i \in DOMAIN sub : sub[i].details.st = "ok"
    /\ \E i \in DOMAIN sub : ~FetchDone(sub[i])

\* C5: a failed cycle keeps the snapshot. When the first gather raises an API
\* or connection error, the cycle reports UpdateFailed and coordinator.data
\* is what it was.
C5_FailedCycleKeepsSnapshot ==
    [][ ( /\ pc = "AwaitTop" /\ pc' = "Idle"
          /\ \E t \in TopTasks :
               top[t] \in {Exc(UnifiApiError), Exc(UnifiConnectionError)} ) =>
          /\ last_exception'.kind = "UpdateFailed"
          /\ last_exception'.cause \in {UnifiApiError, UnifiConnectionError}
          /\ data' = data
      ]_vars

\* a cycle failed with a connection error after an earlier one had succeeded
C5_Witness ==
    /\ pc = "Idle"
    /\ last_exception # None
    /\ last_exception.kind = "UpdateFailed"
    /\ last_exception.cause = UnifiConnectionError
    /\ data # None

\* C11: device key set. A snapshot published by a cycle has exactly the ids of
\* that cycle's device listing as the keys of devices, whatever per-device
\* fetches failed; the info of each entry is the listing's record; an entry
\* whose statistics fetch alone failed has the empty statistics mapping.
C11_DeviceKeySet ==
    [][ (pc # "Idle" /\ pc' = "Idle" /\ last_exception' = None) =>
          LET devices_list == top["devices"].val
          IN /\ DOMAIN data'.devices = { devices_list[i].id : i \in DOMAIN devices_list }
             /\ \A i \in DOMAIN devices_list :
                   data'.devices[devices_list[i].id].info = devices_list[i]
             /\ \A i \in DOMAIN sub :
                   (sub[i].details.st = "ok" /\ sub[i].statistics.st = "exc") =>
                     data'.devices[devices_list[i].id].statistics = EmptyMap
      ]_vars

\* the second cycle published both devices of its listing, one of them as a
\* placeholder
C11_Witness ==
    /\ pc = "Idle"
    /\ last_exception = None
    /\ data # None
    /\ cycle = 2
    /\ Revs(data) = {2}
    /\ DOMAIN data.devices = DeviceIds
    /\ \E x \in DOMAIN data.devices : data.devices[x].statistics = EmptyMap

\* C12: an authentication failure is not retried silently. After a cycle that
\* failed because of an authentication error, no further cycle is started
\* with the same credentials.
C12_AuthFailureNotRetried ==
    [][ ( /\ pc = "Idle"
          /\ last_exception # None
          /\ last_exception.cause = UnifiAuthenticationError ) =>
          pc' = "Idle"
      ]_vars

C14_ClosedOutcomes ==
    \/ last_exception = None
    \/ last_exception.kind \in {"AuthenticationFailed", "UpdateFailed"}

\* C17: step ordering within a cycle. A details or statistics request is
\* issued only in the step in which the cycle resumes from the first gather
\* with its three lists; while the three fetches are awaited, and when the
\* cycle ends because one of them failed, no per-device request of the cycle
\* exists.
C17_StepOrdering ==
    /\ [][ \A r \in inflight' \ inflight :
             r[2] \in SubTasks =>
               /\ pc = "AwaitTop" /\ pc' = "AwaitDevices"
               /\ r[1] = cycle /\ cycle' = cycle
               /\ \A t \in TopTasks : top[t].st = "ok"
        ]_vars
    /\ []( pc = "AwaitTop" =>
             \A r \in inflight : r[1] = cycle => r[2] \in TopTasks )
    /\ [][ (pc = "AwaitTop" /\ pc' = "Idle" /\ last_exception' # None) =>
             \A r \in inflight' : r[1] = cycle => r[2] \in TopTasks
        ]_vars

\* the second cycle has its three lists and its per-device requests are out
C17_Witness ==
    /\ cycle = 2
    /\ pc = "AwaitDevices"
    /\ \A t \in TopTasks : top[t].st = "ok"
    /\ \E r \in inflight : r[1] = cycle /\ r[2] = "details"
    /\ \E r \in inflight : r[1] = cycle /\ r[2] = "statistics"

\* C18: no request outlives its cycle. When the coordinator is in Idle, no
\* fetch that a cycle started is still in flight.
C18_NoRequestOutlivesCycle == pc = "Idle" => inflight = {}

\* C19: publish before notify. When the listeners are called after a
\* successful cycle, coordinator.data is the snapshot of that cycle, and the
\* discovery listener tracks and adds exactly the devices of that snapshot
\* that were not tracked before.
C19_PublishBeforeNotify ==
    [][ ( /\ entry_state = "loaded"
          /\ pc # "Idle" /\ pc' = "Idle"
          /\ last_exception' = None ) =>
          LET new == (DOMAIN data'.devices) \ tracked_devices
          IN /\ Revs(data') = {cycle}
             /\ tracked_devices' = tracked_devices \cup DOMAIN data'.devices
             /\ added' = IF new = {} THEN added
                          ELSE Append(added, { <<d, k>> : d \in new, k \in DeviceSensorKeys })
      ]_vars

\* the listener has added the sensors of a device that the second cycle
\* listed and the first had not
C19_Witness ==
    /\ entry_state = "loaded"
    /\ pc = "Idle"
    /\ cycle = 2
    /\ last_exception = None
    /\ Len(added) = 3
    /\ \E d \in DOMAIN data.devices : <<d, "state">> \in added[3]

\* C20: the snapshot is present before consumers read it. The sensor
\* platform is set up only after a first refresh that returned a snapshot,
\* and whenever the platform is being set up or is set up, with its sensors
\* and its listener, coordinator.data is a snapshot, also after a later
\* cycle failed.
C20_SnapshotPresentForConsumers ==
    /\ [](entry_state \in {"refreshed", "loaded"} => data # None)
    /\ [](added # <<>> => (entry_state = "loaded" /\ data # None))
    /\ [][ (entry_state' = "refreshed" /\ entry_state # "refreshed") =>
             (entry_state = "first_refresh" /\ last_exception' = None /\ data' # None)
        ]_vars

\* the sensors exist and the cycle after the first refresh has failed
C20_Witness ==
    /\ entry_state = "loaded"
    /\ pc = "Idle"
    /\ last_exception # None
    /\ added # <<>>
    /\ data # None

\* the device ids of the snapshots the discovery listener has run on
Notified(history) == UNION { history[i] : i \in DOMAIN history }

\* the calls of async_add_entities that created sensors of device d
CreatedIn(d) == { i \in DOMAIN added : \E key \in DeviceSensorKeys : <<d, key>> \in added[i] }

C22_StaleDevicesRemoved ==
    (entry_state = "loaded" /\ pc = "Idle") => tracked_devices = DOMAIN data.devices

(***************************************************************************)
(* Transport client: _request, api.py lines 43-71.                         *)
(*                                                                         *)
(* What the session answers: [error |-> cause] when it raises an           *)
(* aiohttp.ClientError, otherwise a response [status, text, json].         *)
(***************************************************************************)
Http(status, text, json) == [status |-> status, text |-> text, json |-> json]
ClientError(cause) == [error |-> cause]

\* a client that takes only 401 for an authentication failure
_request_only401(resp) ==
    IF "error" \in DOMAIN resp
    THEN [exc |-> UnifiConnectionError, msg |-> "Cannot connect to UniFi controller",
          cause |-> resp.error]
    ELSE IF resp.status = 401
    THEN [exc |-> UnifiAuthenticationError, msg |-> "Authentication failed",
          status |-> resp.status]
    ELSE IF resp.status # 200
    THEN [exc |-> UnifiApiError, msg |-> "API request failed",
          status |-> resp.status, text |-> resp.text]
    ELSE [ok |-> resp.json]

_request(resp) ==
    IF "error" \in DOMAIN resp
    THEN [exc |-> UnifiConnectionError, msg |-> "Cannot connect to UniFi controller",
          cause |-> resp.error]
    ELSE IF resp.status \in {401, 403}
    THEN [exc |-> UnifiAuthenticationError, msg |-> "Authentication failed",
          status |-> resp.status]
    ELSE IF resp.status # 200
    THEN [exc |-> UnifiApiError, msg |-> "API request failed",
          status |-> resp.status, text |-> resp.text]
    ELSE [ok |-> resp.json]

Raised(r) == "exc" \in DOMAIN r

Statuses == {200, 201, 204, 301, 400, 401, 403, 404, 429, 500, 503}
Texts == {"", "not found", "{}"}
Bodies == { [data |-> <<>>, totalCount |-> 0], [applicationVersion |-> "9.0"] }
Causes == {"dns", "tcp", "tls"}

SessionAnswers ==
    { ClientError(c) : c \in Causes } \cup
    { Http(st, tx, js) : st \in Statuses, tx \in Texts, js \in Bodies }

RequestInit ==
    /\ r_resp \in SessionAnswers
    /\ r_pc = "call"
    /\ r_out = None

RequestCall ==
    /\ r_pc = "call"
    /\ r_out' = _request(r_resp)
    /\ r_pc' = "done"
    /\ UNCHANGED r_resp
    /\ UNCHANGED <<cycleVars, pageVars, classifyVars, flowVars>>

\* the client is used for a next call
RequestAgain ==
    /\ r_pc = "done"
    /\ r_resp' \in SessionAnswers
    /\ r_pc' = "call"
    /\ r_out' = None
    /\ UNCHANGED <<cycleVars, pageVars, classifyVars, flowVars>>

InitRequest == CycleInit /\ PageOff /\ RequestInit /\ ClassifyOff /\ FlowOff
NextRequest == RequestCall \/ RequestAgain
SpecRequest == InitRequest /\ [][NextRequest]_vars

\* C10: request outcome mapping. A finished call has exactly the outcome its
\* response determines: 200 returns the parsed body; 401 and 403 raise
\* UnifiAuthenticationError; any other status raises a plain UnifiApiError
\* (neither of its two subclasses) carrying the body text; a ClientError
\* raises UnifiConnectionError carrying the cause.
C10_RequestOutcome ==
    r_pc = "done" =>
      IF "error" \in DOMAIN r_resp
      THEN Raised(r_out) /\ r_out.exc = UnifiConnectionError /\ r_out.cause = r_resp.error
      ELSE IF r_resp.status = 200
      THEN ~Raised(r_out) /\ r_out.ok = r_resp.json
      ELSE IF r_resp.status = 401 \/ r_resp.status = 403
      THEN Raised(r_out) /\ r_out.exc = UnifiAuthenticationError
      ELSE /\ Raised(r_out)
           /\ IsInstance(r_out.exc, UnifiApiError)
           /\ ~IsInstance(r_out.exc, UnifiAuthenticationError)
           /\ ~IsInstance(r_out.exc, UnifiConnectionError)
           /\ r_out.text = r_resp.text
           /\ r_out.status = r_resp.status

\* a call answered 403 has raised the authentication error
C10_Witness ==
    /\ r_pc = "done"
    /\ "status" \in DOMAIN r_resp
    /\ r_resp.status = 403
    /\ Raised(r_out)
    /\ r_out.exc = UnifiAuthenticationError

(***************************************************************************)
(* Transport client: _paginate, api.py lines 73-90.                        *)
(***************************************************************************)
PageLimit == 200

\* resp.get(key, default) on a parsed body
Get(body, key, default) == IF key \in DOMAIN body THEN body[key] ELSE default

\* the records of a listing are numbered by their position on the server
Page(from, len) == [i \in 1..len |-> from + i]

Min(a, b) == IF a < b THEN a ELSE b
Max(a, b) == IF a > b THEN a ELSE b

Failures ==
    { ClientError("tcp"), Http(401, "", EmptyMap), Http(500, "boom", EmptyMap) }

\* a controller that answers a page request with whatever page and total
PageLens == {0, 1, PageLimit}
Totals == {0, 1, 2, PageLimit + 1, 1000}
AnyServer == [kind |-> "any"]
AnyAnswers(req) ==
    { Http(200, "", [data |-> Page(req.offset, n), totalCount |-> t]) :
        n \in PageLens, t \in Totals } \cup
    { Http(200, "", [data |-> Page(req.offset, n)]) : n \in PageLens } \cup
    { Http(200, "", [totalCount |-> t]) : t \in Totals }

\* a controller that holds n records, reports totalCount = n and serves at
\* most cap records per page
StoreSizes == {0, 1, 2, PageLimit, PageLimit + 1, 2 * PageLimit + 1}
StoreCaps == {1, 2, PageLimit}
StoreServers == { [kind |-> "store", n |-> n, cap |-> c] : n \in StoreSizes, c \in StoreCaps }
StoreAnswer(srv, req) ==
    Http(200, "",
         [data |-> Page(req.offset,
                        Max(0, Min(Min(req.limit, srv.cap), srv.n - req.offset))),
          totalCount |-> srv.n])

Answers(srv, req) ==
    Failures \cup (IF srv.kind = "store" THEN {StoreAnswer(srv, req)} ELSE AnyAnswers(req))

\* a loop that relies on totalCount alone
PaginateBreak_totalonly(all, total, page_data) == Len(all) >= total

\* line 88: if len(results) >= total or not page_data: break
PaginateBreak(all, total, page_data) == Len(all) >= total \/ page_data = <<>>

\* a loop that takes a missing total for one that is not reached yet
TotalCount_unknown(resp, all) == Get(resp, "totalCount", Len(all) + 1)

\* line 86: total = resp.get("totalCount", len(results))
TotalCount(resp, all) == Get(resp, "totalCount", Len(all))

\* line 90: offset += limit
NextOffset(off, limit, page_data) == off + limit

\* a loop that swallows the failure of a page and returns what it has
OnRequestError_partial(err, all) == [pc |-> "returned", out |-> [ok |-> all]]

\* line 81: nothing around the await catches, the error leaves _paginate
OnRequestError(err, all) == [pc |-> "raised", out |-> err]

PaginateInit ==
    /\ server \in {AnyServer} \cup StoreServers
    /\ p_pc = "loop"
    /\ offset = 0
    /\ results = <<>>
    /\ requests = <<>>
    /\ responses = <<>>
    /\ p_out = None

\* lines 81-83: the request of the next page is sent
PaginateRequest ==
    /\ p_pc = "loop"
    /\ Len(requests) < MaxPages
    /\ requests' = Append(requests, [offset |-> offset, limit |-> PageLimit])
    /\ p_pc' = "await"
    /\ UNCHANGED <<server, offset, results, responses, p_out>>
    /\ UNCHANGED <<cycleVars, requestVars, classifyVars, flowVars>>

\* lines 81-90: the answer arrives and the loop body runs
PaginateResponse ==
    /\ p_pc = "await"
    /\ \E resp \in Answers(server, requests[Len(requests)]) :
         /\ responses' = Append(responses, resp)
         /\ LET r == _request(resp)
            IN IF Raised(r)
               THEN /\ p_pc' = OnRequestError(r, results).pc
                    /\ p_out' = OnRequestError(r, results).out
                    /\ UNCHANGED <<offset, results>>
               ELSE LET page_data == Get(r.ok, "data", <<>>)
                        all == results \o page_data
                        total == TotalCount(r.ok, all)
                    IN /\ results' = all
                       /\ IF PaginateBreak(all, total, page_data)
                          THEN /\ p_pc' = "returned"
                               /\ p_out' = [ok |-> all]
                               /\ UNCHANGED offset
                          ELSE /\ p_pc' = "loop"
                               /\ offset' = NextOffset(offset, PageLimit, page_data)
                               /\ UNCHANGED p_out
    /\ UNCHANGED <<server, requests>>
    /\ UNCHANGED <<cycleVars, requestVars, classifyVars, flowVars>>

InitPaginate == CycleInit /\ PaginateInit /\ RequestOff /\ ClassifyOff /\ FlowOff
NextPaginate == PaginateRequest \/ PaginateResponse
SpecPaginate == InitPaginate /\ [][NextPaginate]_vars

(***************************************************************************)
(* Properties of _paginate.                                                *)
(***************************************************************************)
\* the page of the k-th response, and the records accumulated with it
PageOf(k) ==
    LET r == _request(responses[k])
    IN IF Raised(r) THEN <<>> ELSE Get(r.ok, "data", <<>>)

RECURSIVE Concat(_)
Concat(k) == IF k = 0 THEN <<>> ELSE Concat(k - 1) \o PageOf(k)

Failed(k) == Raised(_request(responses[k]))

TotalOf(k) ==
    LET r == _request(responses[k])
    IN Get(r.ok, "totalCount", Len(Concat(k)))

\* the k-th page reaches the total it reports, or is empty
Terminating(k) ==
    ~Failed(k) /\ (Len(Concat(k)) >= TotalOf(k) \/ PageOf(k) = <<>>)

\* the k-th page is shorter than the limit requested
Short(k) == ~Failed(k) /\ Len(PageOf(k)) < PageLimit

\* C6 as stated: a page that is short, empty or reaches totalCount ends the
\* call: no request follows it, and the call returns the concatenation of the
\* pages in request order.
C6_PaginationStopsAtShortPage ==
    /\ \A k \in 1..Len(responses) :
         (Short(k) \/ Terminating(k)) => Len(requests) = k
    /\ p_pc = "returned" => p_out = [ok |-> Concat(Len(responses))]

\* C6 as amended: a page that is empty or at which the accumulated count
\* reaches the totalCount it reports (or that reports none) ends the call: no
\* request follows it, and the call returns the concatenation of the pages in
\* request order; every request asks for the next 200 records.
C6_PaginationResultAndStop ==
    /\ \A k \in 1..Len(responses) :
         Terminating(k) =>
           /\ Len(requests) = k
           /\ p_pc = "returned"
           /\ p_out = [ok |-> Concat(k)]
    /\ p_pc = "returned" => Terminating(Len(responses))
    /\ \A k \in 1..Len(requests) :
         requests[k] = [offset |-> (k - 1) * PageLimit, limit |-> PageLimit]

\* a call returned three pages, the last of them empty
C6_Witness ==
    /\ p_pc = "returned"
    /\ Len(responses) = 3
    /\ PageOf(3) = <<>>
    /\ p_out.ok = PageOf(1) \o PageOf(2)
    /\ PageOf(1) # <<>>
    /\ PageOf(2) # <<>>

\* the k-th response is a page without the totalCount field
NoTotal(k) == ~Failed(k) /\ "totalCount" \notin DOMAIN _request(responses[k]).ok

\* C23 as stated: a page response without totalCount ends the call, which
\* has then issued exactly one request and returns only that page.
C23_MissingTotalOneRequest ==
    \A k \in 1..Len(responses) :
       NoTotal(k) =>
         /\ p_pc = "returned"
         /\ Len(requests) = 1
         /\ p_out = [ok |-> PageOf(k)]

\* C23 as amended: a page response without totalCount ends the call,
\* whatever the length of the page: no request follows it and the call
\* returns the records accumulated up to and including that page; when it
\* is the first response, the call has issued exactly one request and
\* returns only that page.
C23_MissingTotalStops ==
    /\ \A k \in 1..Len(responses) :
         NoTotal(k) =>
           /\ p_pc = "returned"
           /\ k = Len(responses) /\ Len(requests) = k
           /\ p_out = [ok |-> Concat(k)]
    /\ (responses # <<>> /\ NoTotal(1)) =>
         (Len(requests) = 1 /\ p_out = [ok |-> PageOf(1)])

\* a call returned after one full page that carried no totalCount
C23_Witness ==
    /\ p_pc = "returned"
    /\ Len(responses) = 1
    /\ NoTotal(1)
    /\ Len(PageOf(1)) = PageLimit
    /\ p_out = [ok |-> PageOf(1)]

\* C7: completeness. Against a controller that holds n records, reports
\* totalCount = n and serves at most cap records per page, a call that
\* returns has returned all n records, in order and once each.
C7_PaginationComplete ==
    (server.kind = "store" /\ p_pc = "returned") =>
      p_out = [ok |-> [i \in 1..server.n |-> i]]

\* C8: a failed page request ends the call: it is the last request, nothing
\* is returned and the error raised is the error of that request.
C8_PaginationAbortsOnError ==
    /\ \A k \in 1..Len(responses) :
         Failed(k) =>
           /\ k = Len(responses)
           /\ Len(requests) = k
           /\ p_pc = "raised"
           /\ p_out = _request(responses[k])
    /\ p_pc = "raised" => Failed(Len(responses))
    /\ \A j, k \in 1..Len(requests) : j # k => requests[j] # requests[k]

\* the third page request of a call failed after two pages had been collected
C8_Witness ==
    /\ p_pc = "raised"
    /\ Len(responses) = 3
    /\ results # <<>>
    /\ Raised(p_out)
    /\ p_out.exc = UnifiConnectionError

(***************************************************************************)
(* Transport client: get_wans, api.py lines 125-128.                       *)
(*                                                                         *)
(* The parsed body of the WAN endpoint is a JSON array or a JSON object;   *)
(* the call runs on the variables of a _request call.                      *)
(***************************************************************************)
JArray(a) == [array |-> a]
JObject(o) == [object |-> o]

\* isinstance(resp, list)
IsList(resp) == "array" \in DOMAIN resp

\* a client that reads the data key of whatever body it gets
get_wans_dataonly(r) ==
    IF Raised(r) THEN r
    ELSE IF IsList(r.ok) THEN [exc |-> "AttributeError"]
    ELSE [ok |-> Get(r.ok.object, "data", <<>>)]

\* get_wans on the outcome r of its _request: an error of _request is passed
\* on, a list is returned as it is, of an object the data key or []
get_wans(r) ==
    IF Raised(r) THEN r
    ELSE IF IsList(r.ok) THEN [ok |-> r.ok.array]
    ELSE [ok |-> Get(r.ok.object, "data", <<>>)]

WanChoices == { WanRecord(1), WanRecord(2), [name |-> "wan2", rev |-> 1, type |-> "LTE"] }

RECURSIVE WanArrays(_)
WanArrays(n) ==
    IF n = 0 THEN { <<>> }
    ELSE WanArrays(n - 1) \cup
         { Append(a, w) : a \in { x \in WanArrays(n - 1) : Len(x) = n - 1 }, w \in WanChoices }

WanBodies ==
    { JArray(a) : a \in WanArrays(MaxWans) } \cup
    { JObject([data |-> a]) : a \in WanArrays(MaxWans) } \cup
    { JObject([data |-> a, totalCount |-> Len(a)]) : a \in WanArrays(MaxWans) } \cup
    { JObject(EmptyMap), JObject([totalCount |-> 1]), JObject([wans |-> <<WanRecord(1)>>]) }

WanAnswers == Failures \cup { Http(200, "", body) : body \in WanBodies }

WansInit ==
    /\ r_resp \in WanAnswers
    /\ r_pc = "call"
    /\ r_out = None

WansCall ==
    /\ r_pc = "call"
    /\ r_out' = get_wans(_request(r_resp))
    /\ r_pc' = "done"
    /\ UNCHANGED r_resp
    /\ UNCHANGED <<cycleVars, pageVars, classifyVars, flowVars>>

\* get_wans is called again, in the next cycle
WansAgain ==
    /\ r_pc = "done"
    /\ r_resp' \in WanAnswers
    /\ r_pc' = "call"
    /\ r_out' = None
    /\ UNCHANGED <<cycleVars, pageVars, classifyVars, flowVars>>

InitWans == CycleInit /\ PageOff /\ WansInit /\ ClassifyOff /\ FlowOff
NextWans == WansCall \/ WansAgain
SpecWans == InitWans /\ [][NextWans]_vars

\* C15: WAN normalization. For every array A, a call answered with the bare
\* array A and a call answered with the object {data: A} both return A; a
\* call answered with an object without the data key returns the empty
\* sequence.
C15_WanNormalization ==
    (r_pc = "done" /\ ~Raised(_request(r_resp))) =>
       /\ \A a \in WanArrays(MaxWans) :
             ( \/ r_resp.json = JArray(a)
               \/ (~IsList(r_resp.json) /\ "data" \in DOMAIN r_resp.json.object
                     /\ r_resp.json.object.data = a) ) =>
             r_out = [ok |-> a]
       /\ (~IsList(r_resp.json) /\ "data" \notin DOMAIN r_resp.json.object) =>
             r_out = [ok |-> <<>>]

\* a call answered with the object {data: A}, A of two records, returned A
C15_Witness ==
    /\ r_pc = "done"
    /\ "json" \in DOMAIN r_resp
    /\ r_resp.json = JObject([data |-> <<WanRecord(1), WanRecord(2)>>])
    /\ r_out = [ok |-> <<WanRecord(1), WanRecord(2)>>]

(***************************************************************************)
(* Config flow: async_step_user, async_step_site and _create_entry,        *)
(* config_flow.py lines 45-123.                                            *)
(***************************************************************************)
SiteRecord(id, name) == [id |-> id, name |-> name]
SiteRecordNoName(id) == [id |-> id]

SiteListings ==
    { <<>>,
      <<SiteRecord("default", "Home")>>,
      <<SiteRecordNoName("lab")>>,
      <<SiteRecord("default", "Home"), SiteRecordNoName("lab")>> }

\* what get_info can end with: the body, an error of _request, or the
\* ValueError of resp.json() on a body that is not JSON
InfoOutcomes ==
    { _request(a) : a \in Failures \cup { Http(200, "", [applicationVersion |-> "9.0"]) } }
    \cup { [exc |-> "ValueError"] }

\* what get_sites can end with: the list, an error of _request, or the
\* AttributeError of resp.get on a body that is not an object
SitesOutcomes ==
    { [ok |-> l] : l \in SiteListings } \cup
    { _request(a) : a \in Failures } \cup
    { [exc |-> "AttributeError"] }

\* except clauses that take every error of the client for a connection error
ProbeError_apierror(err) ==
    IF IsInstance(err, UnifiAuthenticationError) THEN "invalid_auth"
    ELSE IF IsInstance(err, UnifiApiError) THEN "cannot_connect"
    ELSE "unknown"

\* the except clauses of async_step_user, lines 66-72
ProbeError(err) ==
    IF IsInstance(err, UnifiAuthenticationError) THEN "invalid_auth"
    ELSE IF IsInstance(err, UnifiConnectionError) THEN "cannot_connect"
    ELSE "unknown"

\* what the user can submit; verify_ssl is optional
UserInputs ==
    { [host |-> h, api_key |-> "key", verify_ssl |-> v] :
        h \in {"192.168.1.1", "unifi.local"}, v \in BOOLEAN } \cup
    { [host |-> h, api_key |-> "key"] : h \in {"192.168.1.1", "unifi.local"} }

\* site.get("name", site["id"])
SiteName(site) == Get(site, "name", site.id)

FlowInit ==
    /\ f_pc = "user_form"
    /\ f_submits = 0
    /\ f_input = NoInput
    /\ f_calls = <<>>
    /\ f_info = None
    /\ f_got = None
    /\ f_sites = <<>>
    /\ f_errors = EmptyMap
    /\ f_result = None

\* lines 107-123: the flow ends, with the entry or with the abort of
\* _abort_if_unique_id_configured
_create_entry(site_id, site_name) ==
    /\ \E configured \in BOOLEAN :
         f_result' = IF configured
                     THEN [type |-> "abort", reason |-> "already_configured"]
                     ELSE [type |-> "create_entry", site_id |-> site_id,
                           site_name |-> site_name, host |-> f_input.host,
                           api_key |-> f_input.api_key,
                           verify_ssl |-> f_input.verify_ssl]
    /\ f_pc' = "done"

\* lines 83-85: the user form is shown again with the error
ShowUserForm(error) ==
    /\ f_errors' = [base |-> error]
    /\ f_pc' = "user_form"
    /\ UNCHANGED f_result

\* lines 49-64: the user submits the form; get_info is called
SubmitUser ==
    /\ f_pc = "user_form"
    /\ f_submits < MaxSubmits
    /\ f_submits' = f_submits + 1
    /\ \E user_input \in UserInputs :
         f_input' = [host |-> user_input.host, api_key |-> user_input.api_key,
                     verify_ssl |-> Get(user_input, "verify_ssl", FALSE)]
    /\ f_errors' = EmptyMap
    /\ f_calls' = <<"get_info">>
    /\ f_info' = None
    /\ f_got' = None
    /\ f_pc' = "await_info"
    /\ UNCHANGED <<f_sites, f_result>>
    /\ UNCHANGED <<cycleVars, pageVars, requestVars, classifyVars>>

\* lines 64-72: get_info is over; get_sites is called when it returned
InfoDone ==
    /\ f_pc = "await_info"
    /\ \E o \in InfoOutcomes :
         /\ f_info' = o
         /\ IF Raised(o)
            THEN ShowUserForm(ProbeError(o.exc)) /\ UNCHANGED f_calls
            ELSE /\ f_calls' = Append(f_calls, "get_sites")
                 /\ f_pc' = "await_sites"
                 /\ UNCHANGED <<f_errors, f_result>>
    /\ UNCHANGED <<f_submits, f_input, f_got, f_sites>>
    /\ UNCHANGED <<cycleVars, pageVars, requestVars, classifyVars>>

\* lines 65-85: get_sites is over
SitesDone ==
    /\ f_pc = "await_sites"
    /\ \E o \in SitesOutcomes :
         /\ f_got' = o
         /\ IF Raised(o)
            THEN ShowUserForm(ProbeError(o.exc)) /\ UNCHANGED f_sites
            ELSE /\ f_sites' = o.ok
                 /\ IF Len(o.ok) = 1
                    THEN _create_entry(o.ok[1].id, SiteName(o.ok[1])) /\ UNCHANGED f_errors
                    ELSE IF Len(o.ok) > 1
                    THEN f_pc' = "site_form" /\ UNCHANGED <<f_errors, f_result>>
                    ELSE ShowUserForm("no_sites")
    /\ UNCHANGED <<f_submits, f_input, f_calls, f_info>>
    /\ UNCHANGED <<cycleVars, pageVars, requestVars, classifyVars>>

\* lines 87-97: the user picks one of the offered sites
SelectSite ==
    /\ f_pc = "site_form"
    /\ \E i \in DOMAIN f_sites :
         _create_entry(f_sites[i].id, SiteName(f_sites[i]))
    /\ UNCHANGED <<f_submits, f_input, f_calls, f_info, f_got, f_sites, f_errors>>
    /\ UNCHANGED <<cycleVars, pageVars, requestVars, classifyVars>>

InitFlow == CycleInit /\ PageOff /\ RequestOff /\ ClassifyOff /\ FlowInit
NextFlow == SubmitUser \/ InfoDone \/ SitesDone \/ SelectSite
SpecFlow == InitFlow /\ [][NextFlow]_vars

\* the error the claim names for a failed probe
ExpectedError(err) ==
    CASE err = UnifiAuthenticationError -> "invalid_auth"
      [] err = UnifiConnectionError -> "cannot_connect"
      [] OTHER -> "unknown"

\* C16: the setup probe gates activation. An entry is created only when
\* get_info and then get_sites were called and returned and a site exists,
\* for one of the listed sites; get_sites is not called when get_info
\* failed; a failed probe shows the form with the one error of its kind
\* (invalid_auth, cannot_connect, no_sites, unknown for anything else, a
\* plain UnifiApiError included) and creates no entry.
C16_SetupProbeGates ==
    /\ (f_result # None /\ f_result.type = "create_entry") =>
          /\ f_calls = <<"get_info", "get_sites">>
          /\ f_info # None /\ ~Raised(f_info)
          /\ f_got # None /\ ~Raised(f_got)
          /\ Len(f_got.ok) >= 1
          /\ \E i \in DOMAIN f_got.ok : f_got.ok[i].id = f_result.site_id
          /\ f_result.host = f_input.host
    /\ (f_info # None /\ Raised(f_info)) =>
          /\ f_calls = <<"get_info">>
          /\ f_pc = "user_form"
          /\ f_errors = [base |-> ExpectedError(f_info.exc)]
          /\ f_result = None
    /\ (f_got # None /\ Raised(f_got)) =>
          /\ f_pc = "user_form"
          /\ f_errors = [base |-> ExpectedError(f_got.exc)]
          /\ f_result = None
    /\ (f_got # None /\ ~Raised(f_got) /\ f_got.ok = <<>>) =>
          /\ f_pc = "user_form"
          /\ f_errors = [base |-> "no_sites"]
          /\ f_result = None

\* the form is shown with the unknown error after get_sites raised a plain
\* UnifiApiError on the second submission
C16_Witness ==
    /\ f_pc = "user_form"
    /\ f_submits = 2
    /\ f_got # None /\ Raised(f_got)
    /\ f_got.exc = UnifiApiError
    /\ f_errors = [base |-> "unknown"]
    /\ f_result = None

(***************************************************************************)
(* Client classification on its own: the counting of coordinator.py lines  *)
(* 78-99 applied to one clients list.                                      *)
(***************************************************************************)
SampleTypes ==
    { <<"W", "I", "R", "E", "D">>, <<"w", "i", "r", "e", "d">>, <<"W", "i", "r", "e", "d">>,
      <<"W", "I", "R", "E", "L", "E", "S", "S">>, <<"w", "i", "r", "e", "l", "e", "s", "s">>,
      <<"w", "I", "r", "E", "l", "e", "S", "s">>,
      <<"V", "P", "N">>, <<"v", "p", "n">>, <<"V", "p", "n">>, <<"v", "P", "n">>,
      <<"G", "U", "E", "S", "T">>, <<"u", "n", "k", "n", "o", "w", "n">>,
      <<"W", "I", "R", "E">>, <<>> }

ClientChoices ==
    { ClientRecord(1, 0, t) : t \in SampleTypes } \cup { ClientRecordNoType(1, 0) }

\* the example of the specification: WIRED, WIRELESS, WIRELESS, VPN, GUEST
ExampleClients ==
    << ClientRecord(1, 0, <<"W", "I", "R", "E", "D">>),
       ClientRecord(2, 0, <<"W", "I", "R", "E", "L", "E", "S", "S">>),
       ClientRecord(3, 0, <<"W", "I", "R", "E", "L", "E", "S", "S">>),
       ClientRecord(4, 0, <<"V", "P", "N">>),
       ClientRecord(5, 0, <<"G", "U", "E", "S", "T">>) >>

ClassifyInit ==
    /\ c_clients \in {ExampleClients} \cup
                     UNION { [1..n -> ClientChoices] : n \in 0..MaxClients }
    /\ c_pc = "call"
    /\ c_out = None

\* lines 78-99 on the clients list
ClassifyCall ==
    /\ c_pc = "call"
    /\ c_out' = Snapshot(EmptyMap, c_clients, <<>>)
    /\ c_pc' = "done"
    /\ UNCHANGED c_clients
    /\ UNCHANGED <<cycleVars, pageVars, requestVars, flowVars>>

InitClassify == CycleInit /\ PageOff /\ RequestOff /\ ClassifyInit /\ FlowOff
NextClassify == ClassifyCall
SpecClassify == InitClassify /\ [][NextClassify]_vars

\* two type strings are equal up to the case of their letters
LowerChar(c) ==
    IF \E k \in 1..Len(UpperChars) : UpperChars[k] = c
    THEN LowerChars[CHOOSE k \in 1..Len(UpperChars) : UpperChars[k] = c]
    ELSE c

EqualsIgnoreCase(a, b) ==
    /\ Len(a) = Len(b)
    /\ \A i \in 1..Len(a) : LowerChar(a[i]) = LowerChar(b[i])

Matching(clients_list, name) ==
    { i \in DOMAIN clients_list :
        /\ "type" \in DOMAIN clients_list[i]
        /\ EqualsIgnoreCase(clients_list[i].type, name) }

\* C9: client classification. The three counts of the snapshot are the
\* numbers of records whose type is WIRED, WIRELESS, VPN in any case;
\* client_count is the number of records; the three counts sum to at most
\* client_count.
C9_ClientClassification ==
    c_pc = "done" =>
      /\ c_out.client_count_wired =
           Cardinality(Matching(c_clients, <<"w", "i", "r", "e", "d">>))
      /\ c_out.client_count_wireless =
           Cardinality(Matching(c_clients, <<"w", "i", "r", "e", "l", "e", "s", "s">>))
      /\ c_out.client_count_vpn =
           Cardinality(Matching(c_clients, <<"v", "p", "n">>))
      /\ c_out.client_count = Len(c_clients)
      /\ c_out.client_count_wired + c_out.client_count_wireless + c_out.client_count_vpn
           <= c_out.client_count
      /\ c_clients = ExampleClients =>
           /\ c_out.client_count = 5
           /\ c_out.client_count_wired = 1
           /\ c_out.client_count_wireless = 2
           /\ c_out.client_count_vpn = 1

\* a lower-case wireless client, a client of another type and a client
\* without type have been counted
C9_Witness ==
    /\ c_pc = "done"
    /\ Len(c_clients) = 3
    /\ c_clients[1] = ClientRecord(1, 0, <<"w", "i", "r", "e", "l", "e", "s", "s">>)
    /\ c_clients[2] = ClientRecord(1, 0, <<"G", "U", "E", "S", "T">>)
    /\ c_clients[3] = ClientRecordNoType(1, 0)
    /\ c_out.client_count = 3
    /\ c_out.client_count_wireless = 1
    /\ c_out.client_count_wired = 0
    /\ c_out.client_count_vpn = 0

====
